---- MODULE Spec2Model ----
(***************************************************************************)
(* Model of src/pair.js: the pairing route generatePairingCodeAndConnect,  *)
(* its connection.update handler (open: credential export, close: retry or *)
(* authentication failure) and removeFile.                                 *)
(*                                                                         *)
(* One inbound request is followed through every invocation of             *)
(* generatePairingCodeAndConnect it causes (the route's call and the       *)
(* retries).  Every `await` of the source is a point where the flow is     *)
(* suspended; one action of the model is the synchronous code between two  *)
(* such points.  The transport, the archival upload and the file system    *)
(* are the environment: their results are chosen nondeterministically.     *)
(***************************************************************************)
EXTENDS Integers, Sequences, FiniteSets, TLC

\* Largest number of invocations of generatePairingCodeAndConnect followed.
MaxInv == 2
\* Largest number of connection.update events delivered.
MaxEvents == 3

\* The unauthorized status code of a Close event.
Unauthorized == 401
\* A status code of a Close event other than the unauthorized one.
OtherStatus == Unauthorized + 1

Digits == {"0", "1", "2", "3", "4", "5", "6", "7", "8", "9"}

\* The raw `number` strings considered: empty, without any digit, and with
\* digits among other characters.
Strings == {<<>>, <<"+">>, <<"+", "5">>}

\* req.query: the number parameter may be absent.
Requests == {[hasNumber |-> FALSE, number |-> <<>>]}
              \cup {[hasNumber |-> TRUE, number |-> s] : s \in Strings}

\* The connection.update payloads: connection, and lastDisconnect.error.
Events ==
    {[connection |-> "open", error |-> "absent", statusCode |-> 0],
     [connection |-> "close", error |-> "absent", statusCode |-> 0],
     [connection |-> "close", error |-> "noOutput", statusCode |-> 0],
     [connection |-> "close", error |-> "boom", statusCode |-> Unauthorized],
     [connection |-> "close", error |-> "boom", statusCode |-> OtherStatus]}

VARIABLES
    req,          \* the inbound request's query
    headersSent,  \* res.headersSent
    replies,      \* what res.send has been given, in order
    fs,           \* the paths that exist under ./temp
    nInv,         \* invocations of generatePairingCodeAndConnect started
    sessions,     \* per invocation: its locals and its socket
    handlers,     \* per delivered connection.update event: the handler's run
    processExit   \* "running", or why process.exit() was called

vars == <<req, headersSent, replies, fs, nInv, sessions, handlers, processExit>>

----------------------------------------------------------------------------
\* phoneNumber.replace(/[^0-9]/g, '')
IsDigit(c) == c \in Digits
StripNonDigits(s) == SelectSeq(s, IsDigit)

\* !phoneNumber : undefined and the empty string are falsy.
Falsy(q) == ~q.hasNumber \/ q.number = <<>>

sessionDirPath(id) == <<"temp", id>>
credsFilePath(id) == <<"temp", id, "creds.json">>

IsPrefix(p, q) == Len(p) <= Len(q) /\ SubSeq(q, 1, Len(p)) = p

existsSync(files, path) == path \in files

\* removeFile without its rmSync: nothing is removed.
removeFileKeeps(files, path) == files

\* fs.rmSync(path, {recursive: true, force: true}) behind the existsSync test.
removeFile(files, path) ==
    IF existsSync(files, path)
    THEN {p \in files : ~IsPrefix(path, p)}
    ELSE files

\* removeFile's return value.
removeFileResult(files, path) == existsSync(files, path)

IdleSession ==
    [pc |-> "idle", req |-> [hasNumber |-> FALSE, number |-> <<>>],
     phoneNumber |-> <<>>, registered |-> FALSE, sock |-> "none",
     subscribed |-> FALSE, codeRequests |-> 0, outcome |-> "none", by |-> 0]

Init ==
    /\ req \in Requests
    /\ headersSent = FALSE
    /\ replies = <<>>
    /\ fs = {}
    /\ nInv = 0
    /\ sessions = [i \in 1..MaxInv |-> IdleSession]
    /\ handlers = <<>>
    /\ processExit = "running"

Running == processExit = "running"

----------------------------------------------------------------------------
(* The top-level flow of generatePairingCodeAndConnect.                    *)

Reply(status, code) == [status |-> status, code |-> code]

\* res.send: the reply goes out and res.headersSent becomes true.
Send(r) ==
    /\ replies' = Append(replies, r)
    /\ headersSent' = TRUE

\* SendIfNotSent without its test of res.headersSent.
SendUnguarded(r) == Send(r)

\* if (!res.headersSent) { res.send(r) }
SendIfNotSent(r) ==
    IF headersSent
    THEN UNCHANGED <<replies, headersSent>>
    ELSE Send(r)

\* The call generatePairingCodeAndConnect(q, res) up to its first await:
\* makeid, the test of the number, its normalisation, and the call of
\* useMultiFileAuthState.  `by` is the handler that retries (0: the route).
Invoke(q, by) ==
    LET id == nInv + 1 IN
    /\ nInv' = id
    /\ IF Falsy(q)
       THEN /\ Send(Reply(400, "numberRequired"))
            /\ sessions' = [sessions EXCEPT ![id] =
                   [@ EXCEPT !.pc = "returned", !.req = q, !.by = by,
                             !.outcome = "invalidInput"]]
       ELSE /\ UNCHANGED <<replies, headersSent>>
            /\ sessions' = [sessions EXCEPT ![id] =
                   [@ EXCEPT !.pc = "authState", !.req = q, !.by = by,
                             !.phoneNumber = StripNonDigits(q.number)]]

\* router.get('/', generatePairingCodeAndConnect): the request arrives.
Request ==
    /\ Running
    /\ nInv = 0
    /\ Invoke(req, 0)
    /\ UNCHANGED <<req, fs, handlers, processExit>>

\* sock.ev.on("connection.update", ...): the function then returns.
Subscribe(id, s) == [s EXCEPT !.subscribed = TRUE, !.pc = "returned"]

\* SetupCatch without its removeFile(sessionDirPath).
SetupCatchKeepsWorkspace(id, files) ==
    /\ fs' = files
    /\ SendIfNotSent(Reply(500, "serviceUnavailable"))

\* The catch block of the top-level flow.
SetupCatch(id, files) ==
    /\ fs' = removeFile(files, sessionDirPath(id))
    /\ SendIfNotSent(Reply(500, "serviceUnavailable"))

\* AuthStateReady without its test of creds.registered: a pairing code is
\* asked for in every case.
AuthStateReadyAlwaysRequests(id, reg) ==
    /\ Running
    /\ sessions[id].pc = "authState"
    /\ fs' = fs \cup {sessionDirPath(id)}
                \cup (IF reg THEN {credsFilePath(id)} ELSE {})
    /\ sessions' = [sessions EXCEPT ![id] =
           [@ EXCEPT !.registered = reg, !.sock = "open", !.pc = "delay1500"]]
    /\ UNCHANGED <<req, headersSent, replies, nInv, handlers, processExit>>

\* useMultiFileAuthState resolves (the workspace exists from then on; a
\* registered session has its creds.json), makeWASocket returns the socket,
\* and the flow either waits before asking for the code or subscribes.
AuthStateReady(id, reg) ==
    /\ Running
    /\ sessions[id].pc = "authState"
    /\ fs' = fs \cup {sessionDirPath(id)}
                \cup (IF reg THEN {credsFilePath(id)} ELSE {})
    /\ sessions' = [sessions EXCEPT ![id] =
           LET s == [@ EXCEPT !.registered = reg, !.sock = "open"] IN
           IF ~reg THEN [s EXCEPT !.pc = "delay1500"] ELSE Subscribe(id, s)]
    /\ UNCHANGED <<req, headersSent, replies, nInv, handlers, processExit>>

\* useMultiFileAuthState rejects: no workspace was made.
AuthStateThrows(id) ==
    /\ Running
    /\ sessions[id].pc = "authState"
    /\ SetupCatch(id, fs)
    /\ sessions' = [sessions EXCEPT ![id] =
           [@ EXCEPT !.pc = "returned", !.outcome = "setupError"]]
    /\ UNCHANGED <<req, nInv, handlers, processExit>>

\* useMultiFileAuthState resolves and makeWASocket throws.
MakeSocketThrows(id) ==
    /\ Running
    /\ sessions[id].pc = "authState"
    /\ SetupCatch(id, fs \cup {sessionDirPath(id)})
    /\ sessions' = [sessions EXCEPT ![id] =
           [@ EXCEPT !.pc = "returned", !.outcome = "setupError"]]
    /\ UNCHANGED <<req, nInv, handlers, processExit>>

\* delay(1500) is over: sock.requestPairingCode(phoneNumber) is called.
RequestPairingCode(id) ==
    /\ Running
    /\ sessions[id].pc = "delay1500"
    /\ sessions' = [sessions EXCEPT ![id] =
           [@ EXCEPT !.pc = "requesting", !.codeRequests = @ + 1]]
    /\ UNCHANGED <<req, headersSent, replies, fs, nInv, handlers, processExit>>

\* PairingCodeArrives without its test of res.headersSent.
PairingCodeArrivesAlwaysSends(id) ==
    /\ Running
    /\ sessions[id].pc = "requesting"
    /\ Send(Reply(200, "pairingCode"))
    /\ sessions' = [sessions EXCEPT ![id] =
           [@ EXCEPT !.pc = "returned", !.outcome = "codeReturned"]]
    /\ UNCHANGED <<req, fs, nInv, handlers, processExit>>

\* The pairing code arrives: it is sent and the function returns, unless a
\* reply went out before, and then the flow goes on to subscribe.
PairingCodeArrives(id) ==
    /\ Running
    /\ sessions[id].pc = "requesting"
    /\ IF ~headersSent
       THEN /\ Send(Reply(200, "pairingCode"))
            /\ sessions' = [sessions EXCEPT ![id] =
                   [@ EXCEPT !.pc = "returned", !.outcome = "codeReturned"]]
       ELSE /\ UNCHANGED <<replies, headersSent>>
            /\ sessions' = [sessions EXCEPT ![id] = Subscribe(id, @)]
    /\ UNCHANGED <<req, fs, nInv, handlers, processExit>>

\* sock.requestPairingCode rejects.
PairingCodeThrows(id) ==
    /\ Running
    /\ sessions[id].pc = "requesting"
    /\ SetupCatch(id, fs)
    /\ sessions' = [sessions EXCEPT ![id] =
           [@ EXCEPT !.pc = "returned", !.outcome = "setupError"]]
    /\ UNCHANGED <<req, nInv, handlers, processExit>>

\* creds.update: saveCreds writes creds.json into the workspace.
CredsUpdate(id) ==
    /\ Running
    /\ sessions[id].subscribed
    /\ existsSync(fs, sessionDirPath(id))
    /\ ~existsSync(fs, credsFilePath(id))
    /\ fs' = fs \cup {credsFilePath(id)}
    /\ UNCHANGED <<req, headersSent, replies, nInv, sessions, handlers, processExit>>

----------------------------------------------------------------------------
(* The connection.update handler.  Each delivered event starts one run of  *)
(* the async handler; runs of several events interleave at their awaits.   *)

Effect(op, arg, quoted) == [op |-> op, arg |-> arg, quoted |-> quoted]

NewHandler(id, e, pc) ==
    [session |-> id, event |-> e, pc |-> pc, log |-> <<>>, spawned |-> 0]

\* The branch of the handler a payload takes.  Reading
\* lastDisconnect.error.output.statusCode of an error that has no output
\* throws a TypeError.
Classify(e) ==
    IF e.connection = "open" THEN "open"
    ELSE IF e.error = "absent" THEN "inert"
    ELSE IF e.error = "noOutput" THEN "typeError"
    ELSE IF e.statusCode # Unauthorized THEN "retry"
    ELSE "authFailure"

Backoffs == {h \in 1..Len(handlers) : handlers[h].pc = "backoff"}

CanDeliver(id) ==
    /\ Running
    /\ sessions[id].subscribed
    /\ Len(handlers) < MaxEvents

SetPc(h, pc) == [handlers EXCEPT ![h].pc = pc]

\* The handler is an async function whose promise nobody awaits or catches:
\* an exception that leaves it is an unhandled rejection.  What the runtime
\* does with one depends on its version and flags and on listeners set
\* outside this file: it warns and goes on, or it ends the process.
UnhandledRejection == processExit' \in {processExit, "unhandledRejection"}

Logged(hs, h, eff) == [hs EXCEPT ![h].log = Append(@, eff)]

\* connection === "open": the handler waits delay(5000).
OpenEvent(id, e) ==
    /\ CanDeliver(id)
    /\ Classify(e) = "open"
    /\ handlers' = Append(handlers, NewHandler(id, e, "settle"))
    /\ UNCHANGED <<req, headersSent, replies, fs, nInv, sessions, processExit>>

\* connection === "close" without lastDisconnect.error: neither branch.
CloseEventInert(id, e) ==
    /\ CanDeliver(id)
    /\ Classify(e) = "inert"
    /\ handlers' = Append(handlers, NewHandler(id, e, "done"))
    /\ UNCHANGED <<req, headersSent, replies, fs, nInv, sessions, processExit>>

\* connection === "close" with an error that has no output: the condition
\* throws and the handler's promise rejects.
CloseEventMalformed(id, e) ==
    /\ CanDeliver(id)
    /\ Classify(e) = "typeError"
    /\ handlers' = Append(handlers, NewHandler(id, e, "threw"))
    /\ UnhandledRejection
    /\ UNCHANGED <<req, headersSent, replies, fs, nInv, sessions>>

\* CloseEventTransient without its removeFile(sessionDirPath).
CloseEventTransientKeepsWorkspace(id, e) ==
    /\ CanDeliver(id)
    /\ Classify(e) = "retry"
    /\ nInv + Cardinality(Backoffs) < MaxInv
    /\ handlers' = Append(handlers, NewHandler(id, e, "backoff"))
    /\ UNCHANGED <<req, headersSent, replies, fs, nInv, sessions, processExit>>

\* connection === "close", statusCode !== 401: the workspace is removed and
\* the handler waits delay(2000).
CloseEventTransient(id, e) ==
    /\ CanDeliver(id)
    /\ Classify(e) = "retry"
    /\ nInv + Cardinality(Backoffs) < MaxInv
    /\ fs' = removeFile(fs, sessionDirPath(id))
    /\ handlers' = Logged(Append(handlers, NewHandler(id, e, "backoff")),
                          Len(handlers) + 1, Effect("removeFile", "sessionDir", "none"))
    /\ UNCHANGED <<req, headersSent, replies, nInv, sessions, processExit>>

\* Retry with a ceiling: no retry once a second Close event has been seen.
RetryWithCeiling(h) ==
    /\ Running
    /\ h \in 1..Len(handlers)
    /\ handlers[h].pc = "backoff"
    /\ Cardinality({k \in 1..Len(handlers) :
                       handlers[k].event.connection = "close"}) <= 1
    /\ Invoke(sessions[handlers[h].session].req, h)
    /\ handlers' = [handlers EXCEPT ![h].pc = "done", ![h].spawned = nInv + 1]
    /\ UNCHANGED <<req, fs, processExit>>

\* delay(2000) is over: generatePairingCodeAndConnect(req, res) is called
\* again, not awaited, and the handler ends.
Retry(h) ==
    /\ Running
    /\ h \in 1..Len(handlers)
    /\ handlers[h].pc = "backoff"
    /\ Invoke(sessions[handlers[h].session].req, h)
    /\ handlers' = [handlers EXCEPT ![h].pc = "done", ![h].spawned = nInv + 1]
    /\ UNCHANGED <<req, fs, processExit>>

\* connection === "close", statusCode === 401: the workspace is removed, the
\* 401 reply is sent unless a reply went out before, and the process exits.
CloseEventUnauthorized(id, e) ==
    /\ CanDeliver(id)
    /\ Classify(e) = "authFailure"
    /\ fs' = removeFile(fs, sessionDirPath(id))
    /\ SendIfNotSent(Reply(401, "authenticationFailed"))
    /\ processExit' = "authFailure"
    /\ sessions' = [sessions EXCEPT ![id].outcome = "authFailed"]
    /\ handlers' = Logged(Append(handlers, NewHandler(id, e, "done")),
                          Len(handlers) + 1, Effect("removeFile", "sessionDir", "none"))
    /\ UNCHANGED <<req, nInv>>

AtPc(h, pcs) ==
    /\ Running
    /\ h \in 1..Len(handlers)
    /\ handlers[h].pc \in pcs

\* delay(5000) is over and creds.json is not there: the console.error line
\* names cresFilePath, which is declared nowhere, so evaluating the template
\* throws a ReferenceError; the reply, the close and removeFile that follow
\* it are not reached, and the handler's promise rejects.
ArtifactMissing(h) ==
    /\ AtPc(h, {"settle"})
    /\ ~existsSync(fs, credsFilePath(handlers[h].session))
    /\ handlers' = SetPc(h, "threw")
    /\ sessions' = [sessions EXCEPT ![handlers[h].session].outcome = "missingCredentials"]
    /\ UnhandledRejection
    /\ UNCHANGED <<req, headersSent, replies, fs, nInv>>

\* delay(5000) is over and creds.json is there: upload(...) is called.
ArtifactPresent(h) ==
    /\ AtPc(h, {"settle"})
    /\ existsSync(fs, credsFilePath(handlers[h].session))
    /\ handlers' = Logged(SetPc(h, "uploading"), h, Effect("upload", "creds.json", "none"))
    /\ UNCHANGED <<req, headersSent, replies, fs, nInv, sessions, processExit>>

\* UploadResolves with the two messages swapped: the description goes first.
UploadResolvesDescriptionFirst(h) ==
    /\ AtPc(h, {"uploading"})
    /\ handlers' = Logged(SetPc(h, "sendingToken"), h,
                          Effect("sendMessage", "description", "none"))
    /\ UNCHANGED <<req, headersSent, replies, fs, nInv, sessions, processExit>>

\* upload resolves: the token message is sent to sock.user.id.
UploadResolves(h) ==
    /\ AtPc(h, {"uploading"})
    /\ handlers' = Logged(SetPc(h, "sendingToken"), h, Effect("sendMessage", "token", "none"))
    /\ UNCHANGED <<req, headersSent, replies, fs, nInv, sessions, processExit>>

\* The token message is sent: the description is sent, quoting it.
TokenSent(h) ==
    /\ AtPc(h, {"sendingToken"})
    /\ handlers' = Logged(SetPc(h, "sendingDesc"), h,
                          Effect("sendMessage", "description", "token"))
    /\ UNCHANGED <<req, headersSent, replies, fs, nInv, sessions, processExit>>

\* The description is sent: delay(100).
DescriptionSent(h) ==
    /\ AtPc(h, {"sendingDesc"})
    /\ handlers' = SetPc(h, "delay100")
    /\ UNCHANGED <<req, headersSent, replies, fs, nInv, sessions, processExit>>

\* delay(100) is over: sock.ws.close() is called.
CloseSocket(h) ==
    /\ AtPc(h, {"delay100"})
    /\ sessions' = [sessions EXCEPT ![handlers[h].session].sock = "closed"]
    /\ handlers' = Logged(SetPc(h, "closing"), h, Effect("close", "ws", "none"))
    /\ UNCHANGED <<req, headersSent, replies, fs, nInv, processExit>>

\* The socket is closed: removeFile(sessionDirPath) and process.exit().
ExportCompletes(h) ==
    /\ AtPc(h, {"closing"})
    /\ fs' = removeFile(fs, sessionDirPath(handlers[h].session))
    /\ processExit' = "exportSuccess"
    /\ sessions' = [sessions EXCEPT ![handlers[h].session].outcome = "exported"]
    /\ handlers' = Logged(Logged(SetPc(h, "done"), h,
                                 Effect("removeFile", "sessionDir", "none")),
                          h, Effect("exit", "process", "none"))
    /\ UNCHANGED <<req, headersSent, replies, nInv>>

\* ExportFails with a catch block that starts the export again.
ExportFailsRetries(h) ==
    /\ AtPc(h, {"uploading", "sendingToken", "sendingDesc"})
    /\ SendIfNotSent(Reply(500, "uploadOrSendFailed"))
    /\ handlers' = Logged(Logged(SetPc(h, "uploading"), h,
                                 Effect("caught", handlers[h].pc, "none")),
                          h, Effect("upload", "creds.json", "none"))
    /\ UNCHANGED <<req, fs, nInv, sessions, processExit>>

\* upload or one of the two sendMessage calls rejects: the catch block sends
\* the 500 reply unless a reply went out before, and calls sock.ws.close().
ExportFails(h) ==
    /\ AtPc(h, {"uploading", "sendingToken", "sendingDesc"})
    /\ SendIfNotSent(Reply(500, "uploadOrSendFailed"))
    /\ sessions' = [sessions EXCEPT ![handlers[h].session].sock = "closed"]
    /\ handlers' = Logged(Logged(SetPc(h, "catchClosing"), h,
                                 Effect("caught", handlers[h].pc, "none")),
                          h, Effect("close", "ws", "none"))
    /\ UNCHANGED <<req, fs, nInv, processExit>>

\* The catch block's close is done: removeFile(sessionDirPath).
CatchCompletes(h) ==
    /\ AtPc(h, {"catchClosing"})
    /\ fs' = removeFile(fs, sessionDirPath(handlers[h].session))
    /\ sessions' = [sessions EXCEPT ![handlers[h].session].outcome = "deliveryFailed"]
    /\ handlers' = Logged(SetPc(h, "done"), h, Effect("removeFile", "sessionDir", "none"))
    /\ UNCHANGED <<req, headersSent, replies, nInv, processExit>>

----------------------------------------------------------------------------
Next ==
    \/ Request
    \/ \E id \in 1..MaxInv, reg \in BOOLEAN : AuthStateReady(id, reg)
    \/ \E id \in 1..MaxInv : AuthStateThrows(id)
    \/ \E id \in 1..MaxInv : MakeSocketThrows(id)
    \/ \E id \in 1..MaxInv : RequestPairingCode(id)
    \/ \E id \in 1..MaxInv : PairingCodeArrives(id)
    \/ \E id \in 1..MaxInv : PairingCodeThrows(id)
    \/ \E id \in 1..MaxInv : CredsUpdate(id)
    \/ \E id \in 1..MaxInv, e \in Events : OpenEvent(id, e)
    \/ \E id \in 1..MaxInv, e \in Events : CloseEventInert(id, e)
    \/ \E id \in 1..MaxInv, e \in Events : CloseEventMalformed(id, e)
    \/ \E id \in 1..MaxInv, e \in Events : CloseEventTransient(id, e)
    \/ \E id \in 1..MaxInv, e \in Events : CloseEventUnauthorized(id, e)
    \/ \E h \in 1..MaxEvents : Retry(h)
    \/ \E h \in 1..MaxEvents : ArtifactMissing(h)
    \/ \E h \in 1..MaxEvents : ArtifactPresent(h)
    \/ \E h \in 1..MaxEvents : UploadResolves(h)
    \/ \E h \in 1..MaxEvents : TokenSent(h)
    \/ \E h \in 1..MaxEvents : DescriptionSent(h)
    \/ \E h \in 1..MaxEvents : CloseSocket(h)
    \/ \E h \in 1..MaxEvents : ExportCompletes(h)
    \/ \E h \in 1..MaxEvents : ExportFails(h)
    \/ \E h \in 1..MaxEvents : CatchCompletes(h)

Spec == Init /\ [][Next]_vars

----------------------------------------------------------------------------
(* Properties.                                                             *)

Ids == 1..MaxInv
Hs == 1..Len(handlers)
Started(id) == sessions[id].pc # "idle"
Class(h) == Classify(handlers[h].event)
WorkspaceExists(id) == existsSync(fs, sessionDirPath(id))
\* The request carries a number with at least one digit.
ValidRequest == req.hasNumber /\ StripNonDigits(req.number) # <<>>

\* C1: at most one reply is ever sent to the caller, whatever the order of
\* invocations, retries, Open and Close events and export outcomes; and
\* res.headersSent is true exactly when that reply has gone out.
C1_AtMostOneReply ==
    /\ Len(replies) <= 1
    /\ headersSent <=> replies # <<>>

\* C1 witness: the pairing code went out from a retry, and afterwards the
\* authentication-failure path ran and found the reply already sent.
C1_Witness ==
    /\ processExit = "authFailure"
    /\ replies = <<Reply(200, "pairingCode")>>

\* C2: once the pairing code of an unregistered session has been returned to
\* the caller, that session is subscribed to connection.update.
C2_SubscribedAfterCode ==
    ValidRequest =>
        \A id \in Ids :
            sessions[id].outcome = "codeReturned" => sessions[id].subscribed

\* C3: a number that is missing, empty, or empty once its non-digits are
\* stripped is rejected with the 400 reply, and no workspace, socket or
\* pairing-code request is ever made for it.
C3_EmptyNumberRejected ==
    (Falsy(req) \/ StripNonDigits(req.number) = <<>>) =>
        /\ fs = {}
        /\ nInv > 0 => replies = <<Reply(400, "numberRequired")>>
        /\ \A id \in Ids :
              /\ sessions[id].pc \in {"idle", "returned"}
              /\ sessions[id].outcome \in {"none", "invalidInput"}
              /\ sessions[id].sock = "none"
              /\ sessions[id].codeRequests = 0

TerminalOutcomes ==
    {"exported", "missingCredentials", "deliveryFailed", "authFailed", "setupError"}

\* C4: after each terminal transition of a session (export success, missing
\* credentials, delivery failure, authentication failure, setup exception)
\* its workspace directory is absent.
C4_TerminalWorkspaceAbsent ==
    ValidRequest =>
        \A id \in Ids :
            sessions[id].outcome \in TerminalOutcomes => ~WorkspaceExists(id)

AuthFailureReply == Reply(401, "authenticationFailed")

\* C5 as stated: once a Close event with status 401 has been handled, the
\* workspace is gone, no retry was started by it, and the reply the caller
\* has is the authentication-failure payload.
C5_AuthFailureReplied ==
    (ValidRequest /\ processExit = "authFailure") =>
        /\ ~WorkspaceExists(handlers[Len(handlers)].session)
        /\ handlers[Len(handlers)].spawned = 0
        /\ replies = <<AuthFailureReply>>

\* C5 amended: the step that handles a Close event with status 401 removes
\* the session's workspace, starts no invocation, ends the process, and
\* sends the authentication-failure payload exactly when no reply had been
\* sent before (otherwise it sends nothing); nothing runs after the exit.
C5_AuthFailureStep ==
    [][/\ (processExit = "running" /\ processExit' = "authFailure") =>
            LET h == Len(handlers') IN
            /\ Len(handlers') = Len(handlers) + 1
            /\ Classify(handlers'[h].event) = "authFailure"
            /\ handlers'[h].event.statusCode = Unauthorized
            /\ ~existsSync(fs', sessionDirPath(handlers'[h].session))
            /\ handlers'[h].spawned = 0
            /\ nInv' = nInv
            /\ sessions'[handlers'[h].session].outcome = "authFailed"
            /\ replies' = IF headersSent THEN replies
                          ELSE Append(replies, AuthFailureReply)
       /\ processExit # "running" => UNCHANGED vars
      ]_vars

\* C5 witness: a 401 Close was handled while the workspace existed and no
\* reply had been sent: the caller got the authentication-failure payload.
C5_Witness ==
    /\ processExit = "authFailure"
    /\ replies = <<AuthFailureReply>>
    /\ ValidRequest

SpawnedBy(h) == {id \in Ids : Started(id) /\ sessions[id].by = h}

\* C6: a Close event with a status other than 401 removes the session's
\* workspace at once and waits; when the wait is over its handler has
\* started exactly one new invocation, with the request of the session that
\* closed, and never more than one; the workspace of the closed session is
\* absent while the handler waits and when the retry begins; and an
\* invocation other than the first starts only as the step that ends such a
\* wait.
C6_RetryInvariant ==
    /\ \A h \in Hs :
          /\ Class(h) = "retry" =>
                /\ handlers[h].pc \in {"backoff", "done"}
                /\ ~WorkspaceExists(handlers[h].session)
                /\ handlers[h].pc = "backoff" =>
                      handlers[h].spawned = 0 /\ SpawnedBy(h) = {}
                /\ handlers[h].pc = "done" =>
                      /\ SpawnedBy(h) = {handlers[h].spawned}
                      /\ handlers[h].spawned # handlers[h].session
                      /\ sessions[handlers[h].spawned].req
                            = sessions[handlers[h].session].req
          /\ Class(h) # "retry" => handlers[h].spawned = 0 /\ SpawnedBy(h) = {}
    /\ \A id \in Ids :
          Started(id) =>
              /\ sessions[id].by = 0 <=> id = 1
              /\ sessions[id].req = req
              /\ id > 1 => /\ sessions[id].by \in Hs
                           /\ Class(sessions[id].by) = "retry"

C6_RetryStep ==
    [][nInv' # nInv =>
          /\ nInv' = nInv + 1
          /\ nInv > 0 =>
                \E h \in Hs :
                    /\ handlers[h].pc = "backoff"
                    /\ handlers'[h].pc = "done"
                    /\ handlers'[h].spawned = nInv'
                    /\ ~existsSync(fs, sessionDirPath(handlers[h].session))
      ]_vars

C6_ExactlyOneRetry == []C6_RetryInvariant /\ C6_RetryStep

\* C6 witness: a transient Close was handled while the workspace existed,
\* the wait is over and the retry runs.
C6_Witness ==
    \E h \in Hs :
        /\ Class(h) = "retry"
        /\ handlers[h].pc = "done"
        /\ handlers[h].spawned = 2
        /\ sessions[2].pc = "authState"
        /\ ValidRequest

\* C7: an Open event handled with creds.json absent after the settle wait
\* leaves the caller replied to, the socket closed and the workspace
\* removed, with no upload attempted.
C7_MissingCredentialsHandled ==
    ValidRequest =>
        \A h \in Hs :
            (Class(h) = "open" /\ handlers[h].pc = "threw") =>
                /\ replies # <<>>
                /\ sessions[handlers[h].session].sock = "closed"
                /\ ~WorkspaceExists(handlers[h].session)
                /\ \A k \in 1..Len(handlers[h].log) : handlers[h].log[k].op # "upload"

\* What a handler has done when an export went through.
SuccessLog ==
    <<Effect("upload", "creds.json", "none"),
      Effect("sendMessage", "token", "none"),
      Effect("sendMessage", "description", "token"),
      Effect("close", "ws", "none"),
      Effect("removeFile", "sessionDir", "none"),
      Effect("exit", "process", "none")>>

Caught(h) == \E k \in 1..Len(handlers[h].log) : handlers[h].log[k].op = "caught"

Uploads(h) == {k \in 1..Len(handlers[h].log) : handlers[h].log[k].op = "upload"}

\* How much of SuccessLog is done at each point of the export.
Progress(pc) ==
    CASE pc = "uploading" -> 1
      [] pc = "sendingToken" -> 2
      [] pc \in {"sendingDesc", "delay100"} -> 3
      [] pc = "closing" -> 4
      [] OTHER -> 6

\* C8: a handler of an Open event that found creds.json uploads once, then
\* sends the token message, then the description quoting it, then closes
\* the socket, removes the workspace and only then ends the process: at
\* every point of the export its effects so far are that sequence's start,
\* and when the process has ended on export success the session's socket is
\* closed and its workspace is absent.
C8_ExportOrder ==
    /\ \A h \in Hs :
          (/\ Class(h) = "open"
           /\ ~Caught(h)
           /\ handlers[h].pc \notin {"settle", "threw"}) =>
              /\ handlers[h].log = SubSeq(SuccessLog, 1, Progress(handlers[h].pc))
              /\ handlers[h].pc = "done" => processExit = "exportSuccess"
    /\ processExit = "exportSuccess" =>
          \E h \in Hs :
              /\ handlers[h].log = SuccessLog
              /\ sessions[handlers[h].session].sock = "closed"
              /\ sessions[handlers[h].session].outcome = "exported"
              /\ ~WorkspaceExists(handlers[h].session)

\* C8 witness: an export went through to the process exit.
C8_Witness ==
    /\ processExit = "exportSuccess"
    /\ ValidRequest
    /\ \E h \in Hs : handlers[h].log = SuccessLog

DeliveryFailedReply == Reply(500, "uploadOrSendFailed")

\* C9: a handler whose upload or message send failed has closed the socket,
\* has uploaded once and no more, does nothing after the failure but close
\* and remove the workspace, which is absent when it is done; the step of
\* the failure sends the 500 reply exactly when no reply was sent before,
\* and a handler that ended never runs again.
C9_FailureInvariant ==
    \A h \in Hs :
        (Class(h) = "open" /\ Caught(h)) =>
            /\ handlers[h].pc \in {"catchClosing", "done"}
            /\ sessions[handlers[h].session].sock = "closed"
            /\ headersSent
            /\ Cardinality(Uploads(h)) = 1
            /\ \A k \in 1..Len(handlers[h].log) :
                  handlers[h].log[k].op = "caught" =>
                      \A j \in (k + 1)..Len(handlers[h].log) :
                          handlers[h].log[j].op \in {"close", "removeFile"}
            /\ handlers[h].pc = "done" => ~WorkspaceExists(handlers[h].session)

C9_FailureStep ==
    [][\A h \in Hs :
          /\ (/\ handlers[h].pc \in {"uploading", "sendingToken", "sendingDesc"}
              /\ handlers'[h].pc \notin {handlers[h].pc, "sendingToken",
                                         "sendingDesc", "delay100"}) =>
                /\ handlers'[h].pc = "catchClosing"
                /\ replies' = IF headersSent THEN replies
                              ELSE Append(replies, DeliveryFailedReply)
                /\ nInv' = nInv
                /\ Len(handlers') = Len(handlers)
          /\ handlers[h].pc = "catchClosing" =>
                handlers'[h].pc \in {"catchClosing", "done"}
          /\ handlers[h].pc \in {"done", "threw"} => handlers'[h] = handlers[h]
      ]_vars

C10_RepliedByExportSuccess ==
    (ValidRequest /\ processExit = "exportSuccess") => Len(replies) = 1

\* The session's export was called off: its socket is closed and its
\* workspace is gone.
Cancelled(id) ==
    /\ sessions[id].outcome \in {"exported", "missingCredentials", "deliveryFailed"}
    /\ sessions[id].sock = "closed"
    /\ ~WorkspaceExists(id)

\* C11: an Open or Close event delivered for a session whose socket is
\* closed and whose workspace is removed is ignored: its handler ends at
\* once, and no retry, reply, export, removal or process exit comes of it.
C11_EventsAfterCancelIgnored ==
    [][\A id \in Ids :
          (/\ ValidRequest
           /\ Cancelled(id)
           /\ Len(handlers') = Len(handlers) + 1
           /\ handlers'[Len(handlers')].session = id) =>
              /\ handlers'[Len(handlers')].pc = "done"
              /\ handlers'[Len(handlers')].log = <<>>
              /\ UNCHANGED <<fs, replies, headersSent, nInv, sessions, processExit>>
      ]_vars

UnavailableReply == Reply(500, "serviceUnavailable")

\* C12: the step in which setup fails (useMultiFileAuthState, makeWASocket
\* or requestPairingCode throws) leaves the session's workspace absent,
\* sends the 500 service-unavailable reply exactly when no reply was sent
\* before, starts no invocation and no handler, and leaves the session
\* unsubscribed; and the workspace of a session that failed so stays absent.
C12_SetupFailureInvariant ==
    \A id \in Ids :
        sessions[id].outcome = "setupError" =>
            /\ ~WorkspaceExists(id)
            /\ ~sessions[id].subscribed
            /\ sessions[id].pc = "returned"
            /\ headersSent
            /\ \A h \in Hs : handlers[h].session # id

C12_SetupFailureStep ==
    [][\A id \in Ids :
          (sessions[id].outcome # "setupError"
              /\ sessions'[id].outcome = "setupError") =>
              /\ ~existsSync(fs', sessionDirPath(id))
              /\ replies' = IF headersSent THEN replies
                            ELSE Append(replies, UnavailableReply)
              /\ nInv' = nInv
              /\ handlers' = handlers
              /\ processExit' = processExit
      ]_vars

C12_SetupFailure == []C12_SetupFailureInvariant /\ C12_SetupFailureStep

\* C12 witness: requestPairingCode threw after the workspace and the socket
\* were made, and the caller got the service-unavailable reply.
C12_Witness ==
    /\ ValidRequest
    /\ replies = <<UnavailableReply>>
    /\ \E id \in Ids :
          /\ sessions[id].outcome = "setupError"
          /\ sessions[id].codeRequests = 1

\* C13: a Close event without ErrorInfo, or with a malformed one, changes
\* nothing and raises no fault: its handler ends normally having done
\* nothing, and the process goes on.
C13_CloseWithoutErrorInfoInert ==
    ValidRequest =>
        \A h \in Hs :
            (handlers[h].event.connection = "close"
                /\ handlers[h].event.error # "boom") =>
                /\ handlers[h].pc = "done"
                /\ handlers[h].log = <<>>
                /\ handlers[h].spawned = 0

Ended(h) == handlers[h].pc \in {"done", "threw"}

\* C14: within one session a handler runs to completion before the next
\* event is handled: a Close event is never handled while the handler of an
\* earlier Open event of that session is suspended, so the handler of a
\* Close event never removes the workspace under a running exporter.
C14_HandlersRunToCompletion ==
    ValidRequest =>
        \A h1, h2 \in Hs :
            (/\ h1 < h2
             /\ handlers[h1].session = handlers[h2].session
             /\ Class(h1) = "open"
             /\ Class(h2) = "retry") => Ended(h1)

\* The handlers of a session that went past the settle wait to the artifact
\* check.
Exports(id) ==
    {h \in Hs : /\ handlers[h].session = id
                /\ Class(h) = "open"
                /\ handlers[h].pc # "settle"}

\* C15: whatever events arrive, repeated Open events included, the artifact
\* check and the upload are started at most once per session.
C15_ExporterOncePerSession ==
    ValidRequest => \A id \in Ids : Cardinality(Exports(id)) <= 1

\* C16: no exception leaves the top-level flow or the connection.update
\* handler uncaught.
C16_NoFaultEscapes ==
    ValidRequest =>
        /\ \A h \in Hs : handlers[h].pc # "threw"
        /\ processExit # "unhandledRejection"

\* C17: the process ends only on export success, by the handler that ran
\* the whole export, or on a Close event with status 401.
C17_TerminationOnlyOnTwoOutcomes ==
    ValidRequest =>
        /\ processExit \in {"running", "exportSuccess", "authFailure"}
        /\ processExit = "exportSuccess" =>
              \E h \in Hs : handlers[h].log = SuccessLog
        /\ processExit = "authFailure" =>
              Class(Len(handlers)) = "authFailure"

\* C18: a session whose credentials are registered asks for no pairing
\* code, sends no pairing-code reply and is subscribed as soon as its socket
\* is made; a pairing code is asked for only by an unregistered session,
\* and at most once per invocation.
C18_CodeOnlyWhenUnregistered ==
    \A id \in Ids :
        /\ sessions[id].codeRequests <= 1
        /\ sessions[id].codeRequests = 1 =>
              ~sessions[id].registered /\ sessions[id].sock # "none"
        /\ sessions[id].pc \in {"delay1500", "requesting"} =>
              ~sessions[id].registered
        /\ sessions[id].registered =>
              /\ sessions[id].codeRequests = 0
              /\ sessions[id].outcome # "codeReturned"
              /\ sessions[id].subscribed
              /\ sessions[id].pc = "returned"

\* C18 witness: the first session was registered and went straight to the
\* subscription; its retry was not and asked for a code.
C18_Witness ==
    /\ ValidRequest
    /\ sessions[1].registered
    /\ sessions[1].subscribed
    /\ sessions[1].codeRequests = 0
    /\ sessions[2].codeRequests = 1

\* The retries made so far.
Retries == {id \in Ids : Started(id) /\ sessions[id].by # 0}

PairingCodeReply == Reply(200, "pairingCode")

CodeReplies == {k \in 1..Len(replies) : replies[k] = PairingCodeReply}

\* C20: a retry made after the caller was replied to asks the transport for
\* a new pairing code and does not send it: a pairing code reaches the
\* caller at most once, only as the first reply, and from the one
\* invocation that returned it; a retry that asked for a code and went on
\* to subscribe sent none.
C20_RetryCodeNotDelivered ==
    /\ Cardinality(CodeReplies) <= 1
    /\ CodeReplies \subseteq {1}
    /\ Cardinality({id \in Ids : sessions[id].outcome = "codeReturned"})
          = Cardinality(CodeReplies)
    /\ \A id \in Ids :
          (sessions[id].codeRequests = 1 /\ sessions[id].subscribed) =>
              /\ sessions[id].by # 0
              /\ sessions[id].outcome # "codeReturned"
              /\ headersSent

\* C20 witness: a retry made after the delivery-failure reply asked for a
\* pairing code, kept it, and subscribed.
C20_Witness ==
    /\ ValidRequest
    /\ replies = <<DeliveryFailedReply>>
    /\ \E id \in Ids :
          /\ sessions[id].by # 0
          /\ sessions[id].codeRequests = 1
          /\ sessions[id].subscribed

====
